---- MODULE Spec2Model ----
(***************************************************************************)
(* wireguard-configure: the configuration data model (Router, Peer,       *)
(* Configuration), its text rendering, its load/save lifecycle and the    *)
(* command handlers of main.rs.                                           *)
(*                                                                         *)
(* Text is modelled by TLC strings.  A persisted file is a sequence of    *)
(* lines; a line is a record [ind, dash, key, val]: the column of the     *)
(* key, whether "- " precedes it, the key and the scalar after ": ".      *)
(* An Option<T> is a sequence of length 0 (None) or 1 (Some).             *)
(***************************************************************************)
EXTENDS Integers, Sequences, FiniteSets, TLC

VARIABLES fs, mem, res

vars == <<fs, mem, res>>

(***************************************************************************)
(* Bounds of the model.                                                    *)
(***************************************************************************)
\* longest allowed_ips list of a peer
MaxAllowed == 2
\* most clients add-client is applied to
MaxPeers == 2
\* largest custom routing table number
MaxTable == 1

\* the most builder calls made on one peer
MaxCalls == 3

(***************************************************************************)
(* Option<T>                                                               *)
(***************************************************************************)
None == <<>>

Some(v) == <<v>>

IsSome(o) == Len(o) = 1

Opt(S) == {None} \cup {Some(v) : v \in S}

\* the element of a one-element set; { e(v) : v \in {x} } names x once
The(S) == CHOOSE v \in S : TRUE

(***************************************************************************)
(* Vec<String>::join                                                       *)
(***************************************************************************)
RECURSIVE Join(_, _)
Join(lines, sep) ==
    IF Len(lines) = 0 THEN ""
    ELSE IF Len(lines) = 1 THEN lines[1]
    ELSE lines[1] \o sep \o Join(Tail(lines), sep)

\* Option<String> pushed on a Vec: zero or one line
PushIf(o, prefix) == IF IsSome(o) THEN <<prefix \o o[1]>> ELSE <<>>

(***************************************************************************)
(* TableType (endpoint.rs)                                                 *)
(***************************************************************************)
Off == [kind |-> "Off", value |-> 0]

Auto == [kind |-> "Auto", value |-> 0]

Custom(n) == [kind |-> "Custom", value |-> n]

TableTypes == {Off, Auto} \cup {Custom(n) : n \in 0..MaxTable}

\* impl Display for TableType
TableType_fmt(t) ==
    CASE t.kind = "Off" -> "off"
      [] t.kind = "Auto" -> "auto"
      [] OTHER -> ToString(t.value)

(***************************************************************************)
(* AddrPort (addrport.rs)                                                  *)
(***************************************************************************)
AddrPort_new(address, port) == [address |-> address, port |-> port]

AddrPort_fmt(a) == a.address \o ":" \o ToString(a.port)

(***************************************************************************)
(* IpAddr / IpNet texts                                                    *)
(***************************************************************************)
V4Addrs == {"10.0.1.1", "10.0.1.2", "10.0.1.3"}

V6Addrs == {"fd00::2"}

IpAddrs == V4Addrs \cup V6Addrs

IpNets == {"0.0.0.0/0", "10.0.1.0/24"}

\* IpNet::from(IpAddr): the host network of the address, then Display
IpNet_from(addr) == IF addr \in V6Addrs THEN addr \o "/128" ELSE addr \o "/32"

(***************************************************************************)
(* Router (endpoint.rs)                                                    *)
(***************************************************************************)
mkRouter(name, addr, ext, priv, pub, mtu, table, preup, postup, predown, postdown) ==
    [name |-> name, internal_address |-> addr, external_address |-> ext,
     private_key |-> priv, public_key |-> pub, mtu |-> mtu, table |-> table,
     preup |-> preup, postup |-> postup, predown |-> predown, postdown |-> postdown]

\* Router::new once gen_keys has returned keys = <<private, public>>
Router_new(name, internal_address, external_address, keys) ==
    mkRouter(name, internal_address, external_address, keys[1], keys[2],
             None, None, None, None, None, None)

\* mutant: the Table line pushed before the MTU line
Router_interface_lines_table_first(r) ==
    << "# " \o r.name,
       "[Interface]",
       "Address = " \o r.internal_address,
       "PrivateKey = " \o r.private_key,
       "ListenPort = " \o ToString(r.external_address.port) >>
    \o (IF IsSome(r.table) THEN <<"Table = " \o TableType_fmt(r.table[1])>> ELSE <<>>)
    \o (IF IsSome(r.mtu) THEN <<"MTU = " \o ToString(r.mtu[1])>> ELSE <<>>)
    \o PushIf(r.preup, "PreUp = ")
    \o PushIf(r.postup, "PostUp = ")
    \o PushIf(r.predown, "PreDown = ")
    \o PushIf(r.postdown, "PostDown = ")

\* the `lines` vector of Router::interface_str
Router_interface_lines(r) ==
    << "# " \o r.name,
       "[Interface]",
       "Address = " \o r.internal_address,
       "PrivateKey = " \o r.private_key,
       "ListenPort = " \o ToString(r.external_address.port) >>
    \o (IF IsSome(r.mtu) THEN <<"MTU = " \o ToString(r.mtu[1])>> ELSE <<>>)
    \o (IF IsSome(r.table) THEN <<"Table = " \o TableType_fmt(r.table[1])>> ELSE <<>>)
    \o PushIf(r.preup, "PreUp = ")
    \o PushIf(r.postup, "PostUp = ")
    \o PushIf(r.predown, "PreDown = ")
    \o PushIf(r.postdown, "PostDown = ")

Router_interface_str(r) == Join(Router_interface_lines(r), "\n")

\* mutant: the peer's keepalive and allowed networks rendered for the router
Router_peer_lines_allowed_ips(r, peer) ==
    << "# " \o peer.name,
       "[Peer]",
       "PublicKey = " \o peer.public_key >>
    \o (IF IsSome(peer.persistent_keepalive)
        THEN <<"PersistentKeepalive = " \o ToString(peer.persistent_keepalive[1])>>
        ELSE <<>>)
    \o << "AllowedIPs = " \o Join(peer.allowed_ips, ", ") >>

\* the `lines` vector of Router::peer_str
Router_peer_lines(r, peer) ==
    << "# " \o peer.name,
       "[Peer]",
       "PublicKey = " \o peer.public_key,
       "AllowedIPs = " \o IpNet_from(peer.internal_address) >>

Router_peer_str(r, peer) == Join(Router_peer_lines(r, peer), "\n")

(***************************************************************************)
(* Peer (endpoint.rs)                                                      *)
(***************************************************************************)
\* Peer::new once gen_keys has returned keys = <<private, public>>
Peer_new(name, internal_address, keys) ==
    [name |-> name, internal_address |-> internal_address, allowed_ips |-> <<>>,
     dns |-> None, persistent_keepalive |-> None,
     private_key |-> Some(keys[1]), public_key |-> keys[2],
     mtu |-> None, table |-> None,
     preup |-> None, postup |-> None, predown |-> None, postdown |-> None]

with_dns(p, dns) == [p EXCEPT !.dns = dns]

with_keepalive(p, keepalive) == [p EXCEPT !.persistent_keepalive = keepalive]

with_vec_allowed_ips(p, allowed_ips) == [p EXCEPT !.allowed_ips = allowed_ips]

with_allowed_ips(p, net) == [p EXCEPT !.allowed_ips = Append(@, net)]

with_mtu(p, mtu) == [p EXCEPT !.mtu = mtu]

\* mutant: setting the table resets the MTU
with_table_resets_mtu(p, table) == [p EXCEPT !.table = table, !.mtu = None]

with_table(p, table) == [p EXCEPT !.table = table]

set_private_key(p, private_key) == [p EXCEPT !.private_key = private_key]

set_public_key(p, public_key) == [p EXCEPT !.public_key = public_key]

\* the `lines` vector of Peer::interface_str, given the private key
Peer_interface_lines(p, private_key) ==
    << "# " \o p.name,
       "[Interface]",
       "PrivateKey = " \o private_key,
       "Address = " \o IpNet_from(p.internal_address) >>
    \o PushIf(p.dns, "DNS = ")
    \o (IF IsSome(p.mtu) THEN <<"MTU = " \o ToString(p.mtu[1])>> ELSE <<>>)
    \o (IF IsSome(p.table) THEN <<"Table = " \o TableType_fmt(p.table[1])>> ELSE <<>>)
    \o PushIf(p.preup, "PreUp = ")
    \o PushIf(p.postup, "PostUp = ")
    \o PushIf(p.predown, "PreDown = ")
    \o PushIf(p.postdown, "PostDown = ")

\* Peer::interface_str -> Option<String>
Peer_interface_str(p) ==
    IF IsSome(p.private_key)
    THEN Some(Join(Peer_interface_lines(p, p.private_key[1]), "\n"))
    ELSE None

\* mutant: the peer's own public key in place of the router's
Peer_peer_lines_own_key(p, router) ==
    << "# " \o router.name,
       "[Peer]",
       "PublicKey = " \o p.public_key,
       "Endpoint = " \o router.external_address.address \o ":"
                     \o ToString(router.external_address.port) >>
    \o (IF IsSome(p.persistent_keepalive)
        THEN <<"PersistentKeepalive = " \o ToString(p.persistent_keepalive[1])>>
        ELSE <<>>)
    \o << "AllowedIPs = " \o Join(p.allowed_ips, ", ") >>

\* the `lines` vector of Peer::peer_str
Peer_peer_lines(p, router) ==
    << "# " \o router.name,
       "[Peer]",
       "PublicKey = " \o router.public_key,
       "Endpoint = " \o router.external_address.address \o ":"
                     \o ToString(router.external_address.port) >>
    \o (IF IsSome(p.persistent_keepalive)
        THEN <<"PersistentKeepalive = " \o ToString(p.persistent_keepalive[1])>>
        ELSE <<>>)
    \o << "AllowedIPs = " \o Join(p.allowed_ips, ", ") >>

Peer_peer_str(p, router) == Join(Peer_peer_lines(p, router), "\n")

(***************************************************************************)
(* Configuration (configuration.rs): in-memory operations                  *)
(***************************************************************************)
\* Configuration::new
Configuration_new(router) == [metadata |-> None, router |-> router, clients |-> <<>>]

\* Configuration::with_name
with_name(c, name) ==
    IF IsSome(c.metadata)
    THEN [c EXCEPT !.metadata = Some([c.metadata[1] EXCEPT !.name = Some(name)])]
    ELSE [c EXCEPT !.metadata = Some([name |-> Some(name), path |-> None])]

\* Configuration::with_path
with_path(c, path) ==
    IF IsSome(c.metadata)
    THEN [c EXCEPT !.metadata = Some([c.metadata[1] EXCEPT !.path = Some(path)])]
    ELSE [c EXCEPT !.metadata = Some([name |-> None, path |-> Some(path)])]

\* Configuration::push_peer
push_peer(c, client) == [c EXCEPT !.clients = Append(@, client)]

\* mutant: the last client of that name
client_by_name_last(c, name) ==
    LET hits == {i \in 1..Len(c.clients) : c.clients[i].name = name}
    IN  IF hits = {} THEN None
        ELSE Some(c.clients[CHOOSE i \in hits : \A j \in hits : i >= j])

\* Configuration::client_by_name: the first client of that name
client_by_name(c, name) ==
    LET hits == {i \in 1..Len(c.clients) : c.clients[i].name = name}
    IN  IF hits = {} THEN None
        ELSE Some(c.clients[CHOOSE i \in hits : \A j \in hits : i <= j])

\* Configuration::client_config
client_config(c, name) ==
    The({ IF ~IsSome(client) THEN None
          ELSE The({ IF IsSome(interface)
                     THEN Some(interface[1] \o "\n\n"
                               \o Peer_peer_str(client[1], c.router))
                     ELSE None :
                     interface \in {Peer_interface_str(client[1])} }) :
          client \in {client_by_name(c, name)} })

\* mutant: only the first client of that name is dropped
retain_drop_first(clients, client_name) ==
    IF \E i \in 1..Len(clients) : clients[i].name = client_name
    THEN The({ SubSeq(clients, 1, i - 1) \o SubSeq(clients, i + 1, Len(clients)) :
               i \in {CHOOSE i \in 1..Len(clients) :
                         /\ clients[i].name = client_name
                         /\ \A j \in 1..(i - 1) : clients[j].name # client_name} })
    ELSE clients

\* Vec::retain(|x| x.name != client_name)
retain_not_named(clients, client_name) ==
    SelectSeq(clients, LAMBDA x : x.name # client_name)

(***************************************************************************)
(* The persisted document (serde_yaml over the derived Serialize of        *)
(* Configuration, Router, Peer, AddrPort and TableType).                   *)
(***************************************************************************)
Line(ind, dash, key, val) == [ind |-> ind, dash |-> dash, key |-> key, val |-> val]

OptStr(o) == IF IsSome(o) THEN o[1] ELSE "~"

OptNum(o) == IF IsSome(o) THEN ToString(o[1]) ELSE "~"

\* #[derive(Serialize)] enum TableType under Option: a unit variant is its
\* name, the newtype variant Custom(n) is the one-entry mapping {Custom: n}
Serialize_table(o, ind) ==
    IF ~IsSome(o) THEN <<Line(ind, FALSE, "table", "~")>>
    ELSE IF o[1].kind = "Custom"
         THEN <<Line(ind, FALSE, "table", ""),
                Line(ind + 2, FALSE, "Custom", ToString(o[1].value))>>
         ELSE <<Line(ind, FALSE, "table", o[1].kind)>>

\* a table entry as a person writes it: "off", "auto" or the table number
\* (what the Deserialize visitor expects)
Written_table(o, ind) ==
    <<Line(ind, FALSE, "table", IF IsSome(o) THEN TableType_fmt(o[1]) ELSE "~")>>

\* the table entry of a document written by hand, or else by the serializer
TableEntry(o, ind, hand) ==
    IF hand THEN Written_table(o, ind) ELSE Serialize_table(o, ind)

\* #[derive(Serialize)] struct Router, fields in declaration order
Serialize_router(r, hand) ==
    << Line(2, FALSE, "name", r.name),
       Line(2, FALSE, "internal_address", r.internal_address),
       Line(2, FALSE, "external_address", ""),
       Line(4, FALSE, "address", r.external_address.address),
       Line(4, FALSE, "port", ToString(r.external_address.port)),
       Line(2, FALSE, "private_key", r.private_key),
       Line(2, FALSE, "public_key", r.public_key),
       Line(2, FALSE, "mtu", OptNum(r.mtu)) >>
    \o TableEntry(r.table, 2, hand)
    \o << Line(2, FALSE, "preup", OptStr(r.preup)),
          Line(2, FALSE, "postup", OptStr(r.postup)),
          Line(2, FALSE, "predown", OptStr(r.predown)),
          Line(2, FALSE, "postdown", OptStr(r.postdown)) >>

\* #[derive(Serialize)] struct Peer as one item of the clients sequence
Serialize_peer(p, hand) ==
    << Line(4, TRUE, "name", p.name),
       Line(4, FALSE, "internal_address", p.internal_address) >>
    \o (IF Len(p.allowed_ips) = 0
        THEN <<Line(4, FALSE, "allowed_ips", "[]")>>
        ELSE <<Line(4, FALSE, "allowed_ips", "")>>
             \o [i \in 1..Len(p.allowed_ips) |-> Line(8, TRUE, "", p.allowed_ips[i])])
    \o << Line(4, FALSE, "dns", OptStr(p.dns)),
          Line(4, FALSE, "persistent_keepalive", OptNum(p.persistent_keepalive)),
          Line(4, FALSE, "private_key", OptStr(p.private_key)),
          Line(4, FALSE, "public_key", p.public_key),
          Line(4, FALSE, "mtu", OptNum(p.mtu)) >>
    \o TableEntry(p.table, 4, hand)
    \o << Line(4, FALSE, "preup", OptStr(p.preup)),
          Line(4, FALSE, "postup", OptStr(p.postup)),
          Line(4, FALSE, "predown", OptStr(p.predown)),
          Line(4, FALSE, "postdown", OptStr(p.postdown)) >>

RECURSIVE Flatten(_)
Flatten(seqs) == IF Len(seqs) = 0 THEN <<>> ELSE Head(seqs) \o Flatten(Tail(seqs))

Serialize_clients(clients, hand) ==
    Flatten([i \in 1..Len(clients) |-> Serialize_peer(clients[i], hand)])

\* the document of a Configuration: metadata is skipped (skip_serializing),
\* then router, then clients; hand tells a document written by hand from
\* one the serializer writes
Document(router, clients, hand) ==
    << Line(0, FALSE, "---", ""), Line(0, FALSE, "router", "") >>
    \o Serialize_router(router, hand)
    \o (IF Len(clients) = 0
        THEN <<Line(0, FALSE, "clients", "[]")>>
        ELSE <<Line(0, FALSE, "clients", "")>> \o Serialize_clients(clients, hand))

\* serde_yaml::to_string(&self)
to_string(c) == Document(c.router, c.clients, FALSE)

(***************************************************************************)
(* Deserialization (serde_yaml::from_str into the derived Deserialize,     *)
(* and the hand-written Deserialize of TableType).  A parse yields None    *)
(* on error and Some(value) otherwise.                                     *)
(***************************************************************************)
\* numbers that occur in documents of the model
Numbers == (0..MaxTable) \cup {25, 1420, 31337}

ParseNum(s) ==
    IF \E n \in Numbers : ToString(n) = s
    THEN Some(CHOOSE n \in Numbers : ToString(n) = s)
    ELSE None

RouterNets == {"10.0.1.1/24"}

ParseAddr(s) == IF s \in IpAddrs THEN Some(s) ELSE None

ParseNet(s) == IF s \in IpNets \cup RouterNets THEN Some(s) ELSE None

ParseStr(s) == IF s \in {"", "~", "[]"} THEN None ELSE Some(s)

\* str::to_lowercase on the table texts of the model
to_lowercase(v) ==
    CASE v \in {"off", "Off", "OFF"} -> "off"
      [] v \in {"auto", "Auto", "AUTO"} -> "auto"
      [] OTHER -> v

\* TableTypeVisitor::visit_str
visit_str(v) ==
    LET x == to_lowercase(v)
    IN  IF x = "off" THEN Some(Off)
        ELSE IF x = "auto" THEN Some(Auto)
        ELSE LET value == ParseNum(x)
             IN  IF IsSome(value) THEN Some(Custom(value[1])) ELSE None

\* a scalar deserialized as the type of its field
Parse(type, v) ==
    CASE type = "String" -> ParseStr(v)
      [] type = "IpAddr" -> ParseAddr(v)
      [] type = "IpNet" -> ParseNet(v)
      [] type = "uint" -> ParseNum(v)
      [] type = "TableType" -> visit_str(v)

\* the entries of a mapping whose keys stand in column c
FieldIdx(seg, c) == {i \in 1..Len(seg) : seg[i].ind = c}

\* a block is one mapping of column c: it starts with a key, nothing stands
\* left of the keys, and no key occurs twice (serde: duplicate field)
MapOk(seg, c) ==
    /\ Len(seg) >= 1
    /\ seg[1].ind = c
    /\ \A i \in 1..Len(seg) : seg[i].ind >= c
    /\ \A i, j \in FieldIdx(seg, c) : seg[i].key = seg[j].key => i = j

Idx(seg, c, key) ==
    IF \E i \in FieldIdx(seg, c) : seg[i].key = key
    THEN CHOOSE i \in FieldIdx(seg, c) : seg[i].key = key
    ELSE 0

\* the lines nested under entry i
Kids(seg, c, i) ==
    The({ SubSeq(seg, i + 1,
                 IF later = {} THEN Len(seg)
                 ELSE (CHOOSE j \in later : \A k \in later : j <= k) - 1) :
          later \in {{j \in FieldIdx(seg, c) : j > i}} })

\* a required scalar field of the given type
ReqField(seg, c, key, type) ==
    The({ IF i = 0 THEN None
          ELSE IF Len(Kids(seg, c, i)) # 0 THEN None
          ELSE Parse(type, seg[i].val) :
          i \in {Idx(seg, c, key)} })

\* an Option field of the given type: a missing key and "~" are None; an entry
\* that holds a nested block is no scalar and is rejected
OptField(seg, c, key, type) ==
    The({ IF i = 0 THEN Some(None)
          ELSE IF Len(Kids(seg, c, i)) # 0 THEN None
          ELSE IF seg[i].val = "~" THEN Some(None)
          ELSE The({ IF IsSome(r) THEN Some(Some(r[1])) ELSE None :
                     r \in {Parse(type, seg[i].val)} }) :
          i \in {Idx(seg, c, key)} })

\* Vec<IpNet>
ParseNets(seg, c, key) ==
    The({ IF i = 0 THEN None
          ELSE The({ IF seg[i].val = "[]"
                     THEN (IF Len(kids) = 0 THEN Some(<<>>) ELSE None)
                     ELSE IF /\ seg[i].val = ""
                             /\ Len(kids) >= 1
                             /\ \A k \in 1..Len(kids) :
                                   /\ kids[k].ind = c + 4
                                   /\ kids[k].dash
                                   /\ kids[k].key = ""
                                   /\ IsSome(ParseNet(kids[k].val))
                          THEN Some([k \in 1..Len(kids) |-> kids[k].val])
                          ELSE None :
                     kids \in {Kids(seg, c, i)} }) :
          i \in {Idx(seg, c, key)} })

\* AddrPort
ParseAddrPort(seg, c, key) ==
    The({ IF i = 0 THEN None
          ELSE The({ IF seg[i].val # "" \/ ~MapOk(kids, c + 2) THEN None
                     ELSE The({ IF IsSome(address) /\ IsSome(port)
                                THEN Some(AddrPort_new(address[1], port[1]))
                                ELSE None :
                                address \in {ReqField(kids, c + 2, "address", "String")},
                                port \in {ReqField(kids, c + 2, "port", "uint")} }) :
                     kids \in {Kids(seg, c, i)} }) :
          i \in {Idx(seg, c, key)} })

AllSome(fields) == \A i \in 1..Len(fields) : IsSome(fields[i])

\* Deserialize for Router
ParseRouter(seg) ==
    IF ~MapOk(seg, 2) \/ \E i \in FieldIdx(seg, 2) : seg[i].dash THEN None
    ELSE The({ IF AllSome(<<name, addr, ext, priv, pub, mtu, table,
                            preup, postup, predown, postdown>>)
               THEN Some(mkRouter(name[1], addr[1], ext[1], priv[1], pub[1], mtu[1],
                                  table[1], preup[1], postup[1], predown[1],
                                  postdown[1]))
               ELSE None :
               name \in {ReqField(seg, 2, "name", "String")},
               addr \in {ReqField(seg, 2, "internal_address", "IpNet")},
               ext \in {ParseAddrPort(seg, 2, "external_address")},
               priv \in {ReqField(seg, 2, "private_key", "String")},
               pub \in {ReqField(seg, 2, "public_key", "String")},
               mtu \in {OptField(seg, 2, "mtu", "uint")},
               table \in {OptField(seg, 2, "table", "TableType")},
               preup \in {OptField(seg, 2, "preup", "String")},
               postup \in {OptField(seg, 2, "postup", "String")},
               predown \in {OptField(seg, 2, "predown", "String")},
               postdown \in {OptField(seg, 2, "postdown", "String")} })

\* Deserialize for Peer; seg is one item of the clients sequence
ParsePeer(seg) ==
    IF ~MapOk(seg, 4) THEN None
    ELSE The({ IF AllSome(<<name, addr, nets, dns, keepalive, priv, pub, mtu, table,
                            preup, postup, predown, postdown>>)
               THEN Some([name |-> name[1], internal_address |-> addr[1],
                          allowed_ips |-> nets[1], dns |-> dns[1],
                          persistent_keepalive |-> keepalive[1],
                          private_key |-> priv[1], public_key |-> pub[1],
                          mtu |-> mtu[1], table |-> table[1],
                          preup |-> preup[1], postup |-> postup[1],
                          predown |-> predown[1], postdown |-> postdown[1]])
               ELSE None :
               name \in {ReqField(seg, 4, "name", "String")},
               addr \in {ReqField(seg, 4, "internal_address", "IpAddr")},
               nets \in {ParseNets(seg, 4, "allowed_ips")},
               dns \in {OptField(seg, 4, "dns", "IpAddr")},
               keepalive \in {OptField(seg, 4, "persistent_keepalive", "uint")},
               priv \in {OptField(seg, 4, "private_key", "String")},
               pub \in {ReqField(seg, 4, "public_key", "String")},
               mtu \in {OptField(seg, 4, "mtu", "uint")},
               table \in {OptField(seg, 4, "table", "TableType")},
               preup \in {OptField(seg, 4, "preup", "String")},
               postup \in {OptField(seg, 4, "postup", "String")},
               predown \in {OptField(seg, 4, "predown", "String")},
               postdown \in {OptField(seg, 4, "postdown", "String")} })

\* Vec<Peer>: the block splits at each "- " of column 4
RECURSIVE ParseClients(_)
ParseClients(blk) ==
    IF Len(blk) = 0 THEN Some(<<>>)
    ELSE IF ~(blk[1].ind = 4 /\ blk[1].dash) THEN None
    ELSE The({ The({ IF IsSome(p) /\ IsSome(rest)
                     THEN Some(<<p[1]>> \o rest[1])
                     ELSE None :
                     p \in {ParsePeer(SubSeq(blk, 1, nxt - 1))},
                     rest \in {ParseClients(SubSeq(blk, nxt, Len(blk)))} }) :
               nxt \in { IF \E j \in 2..Len(blk) : blk[j].ind = 4 /\ blk[j].dash
                         THEN CHOOSE j \in 2..Len(blk) :
                                  /\ blk[j].ind = 4 /\ blk[j].dash
                                  /\ \A k \in 2..(j - 1) : ~(blk[k].ind = 4 /\ blk[k].dash)
                         ELSE Len(blk) + 1 } })

\* the clients entry at line k of the document
ParseClientsEntry(buffer, k) ==
    IF buffer[k].val = "[]"
    THEN (IF k = Len(buffer) THEN Some(<<>>) ELSE None)
    ELSE IF buffer[k].val = "" /\ k < Len(buffer)
         THEN ParseClients(SubSeq(buffer, k + 1, Len(buffer)))
         ELSE None

\* serde_yaml::from_str::<Configuration>: metadata has no entry and is None
from_str(buffer) ==
    The({ IF \/ Len(buffer) < 3
             \/ buffer[1] # Line(0, FALSE, "---", "")
             \/ buffer[2] # Line(0, FALSE, "router", "")
             \/ Cardinality(cl) # 1
             \/ {i \in 1..Len(buffer) : buffer[i].ind = 0} # {1, 2} \cup cl
          THEN None
          ELSE The({ The({ IF IsSome(router) /\ IsSome(clients)
                           THEN Some([metadata |-> None, router |-> router[1],
                                      clients |-> clients[1]])
                           ELSE None :
                           router \in {ParseRouter(SubSeq(buffer, 3, k - 1))},
                           clients \in {ParseClientsEntry(buffer, k)} }) :
                     k \in cl }) :
          cl \in {{i \in 1..Len(buffer) :
                      buffer[i].ind = 0 /\ buffer[i].key = "clients"}} })

(***************************************************************************)
(* Paths and the file system: one path, which is a regular file or is      *)
(* missing, and the lines the file holds.                                  *)
(***************************************************************************)
Path(dir, stem, ext) == [dir |-> dir, stem |-> stem, ext |-> ext]

\* Path::extension
Path_extension(path) == path.ext

\* Path::file_stem
Path_file_stem(path) == path.stem

\* File::open / OpenOptions::open without create: the file must exist
CanOpen(f, path) == f.exists /\ f.path = path

\* write_all on a file opened with read(true).write(true): the bytes replace
\* the content from offset 0 on; the file is not truncated
write_all(old, bytes) == bytes \o SubSeq(old, Len(bytes) + 1, Len(old))

OpenResult(status, err, cfg, deser) ==
    [status |-> status, err |-> err, cfg |-> cfg, deser |-> deser]

\* Configuration::from_path
from_path(path, f) ==
    IF ~CanOpen(f, path) THEN OpenResult("err", "io", None, FALSE)
    ELSE IF ~IsSome(Path_extension(path))
         THEN OpenResult("panic", "The provided path has an invalid extension.",
                         None, FALSE)
    ELSE IF Path_extension(path)[1] # "toml"
         THEN OpenResult("err", "The provided path does not end in .toml", None, FALSE)
    ELSE The({ IF ~IsSome(buf_config) THEN OpenResult("err", "deserialize", None, TRUE)
               ELSE OpenResult("ok", "",
                               Some(with_path(with_name(buf_config[1],
                                                        Path_file_stem(path)), path)),
                               TRUE) :
               buf_config \in {from_str(f.content)} })

WIREGUARD_CONFIG_PATH == "/etc/wireguard"

\* A configuration name is the sequence of the dot-separated parts of the
\* string: "wg0" is <<"wg0">>, "wg0.home" is <<"wg0", "home">>.
\* PathBuf::push of a relative name: the name becomes the file name, whose
\* extension is what follows its last dot and whose stem is what precedes it
PathBuf_push(dir, name) ==
    IF Len(name) = 1 THEN Path(dir, name[1], None)
    ELSE Path(dir, Join(SubSeq(name, 1, Len(name) - 1), "."), Some(name[Len(name)]))

\* PathBuf::set_extension: replaces the extension of the file name, or adds
\* one when the file name has none
set_extension(path, ext) == [path EXCEPT !.ext = Some(ext)]

\* Path::is_file
is_file(f, path) == f.exists /\ f.path = path

\* Path::to_str
Path_to_str(path) ==
    path.dir \o "/" \o path.stem \o
    (IF IsSome(path.ext) THEN "." \o path.ext[1] ELSE "")

\* Configuration::from_name
from_name(name, f) ==
    The({ IF ~is_file(f, config_path)
          THEN OpenResult("err", Path_to_str(config_path) \o " is not a file",
                          None, FALSE)
          ELSE from_path(config_path, f) :
          config_path \in {set_extension(PathBuf_push(WIREGUARD_CONFIG_PATH, name),
                                         "toml")} })

SaveResult(status, err, content, written) ==
    [status |-> status, err |-> err, content |-> content, written |-> written]

\* mutant: a configuration without a path is written to the file at hand
save_to_open_file(c, f) ==
    IF ~CanOpen(f, f.path)
    THEN SaveResult("err", "io", f.content, FALSE)
    ELSE SaveResult("ok", "", write_all(f.content, to_string(c)), TRUE)

\* Configuration::save: the outcome and the content of the file afterwards
save(c, f) ==
    IF ~IsSome(c.metadata)
    THEN SaveResult("err", "Configuration metadata not found.", f.content, FALSE)
    ELSE IF ~IsSome(c.metadata[1].path)
    THEN SaveResult("err", "No path defined for this configuration.", f.content, FALSE)
    ELSE IF ~CanOpen(f, c.metadata[1].path[1])
    THEN SaveResult("err", "io", f.content, FALSE)
    ELSE SaveResult("ok", "", write_all(f.content, to_string(c)), TRUE)

(***************************************************************************)
(* Command handlers (main.rs).  A handler's result: the configuration in   *)
(* memory when it returns, what it reports, how often save was called,     *)
(* the lines printed on stdout and the content of the file afterwards.     *)
(***************************************************************************)
Handled(cfg, outcome, saves, out, content) ==
    [cfg |-> cfg, outcome |-> outcome, saves |-> saves, out |-> out,
     content |-> content]

\* handle_configuration_open: the name is used when given, else the path
handle_configuration_open(config_opts, f) ==
    IF IsSome(config_opts.name) THEN from_name(config_opts.name[1], f)
    ELSE IF IsSome(config_opts.path) THEN from_path(config_opts.path[1], f)
    ELSE OpenResult("err", "No configuration name or path have been specified.",
                    None, FALSE)

\* mutant: the generated private key is kept beside the supplied public key
new_client_keeps_private_key(client_name, internal_address, allowed_ips, dns, persistent_keepalive, public_key, keys) ==
    The({ IF IsSome(public_key) THEN set_public_key(peer, public_key[1]) ELSE peer :
          peer \in {with_vec_allowed_ips(
                        with_keepalive(
                            with_dns(Peer_new(client_name, internal_address, keys),
                                     dns),
                            persistent_keepalive),
                        allowed_ips)} })

\* the peer handle_add_client builds from its arguments
new_client(client_name, internal_address, allowed_ips, dns, persistent_keepalive, public_key, keys) ==
    The({ IF IsSome(public_key)
          THEN set_public_key(set_private_key(peer, None), public_key[1])
          ELSE peer :
          peer \in {with_vec_allowed_ips(
                        with_keepalive(
                            with_dns(Peer_new(client_name, internal_address, keys),
                                     dns),
                            persistent_keepalive),
                        allowed_ips)} })

\* handle_add_client, and the expect of main on its result; keys is what
\* gen_keys returns: None when it fails
handle_add_client(config, client_name, internal_address, allowed_ips, dns, persistent_keepalive, public_key, keys, f) ==
    IF \E i \in 1..Len(config.clients) : config.clients[i].name = client_name
    THEN Handled(config, "exists", 0, <<>>, f.content)
    ELSE IF ~IsSome(keys)
    THEN Handled(config, "panic", 0, <<>>, f.content)
    ELSE The({ The({ IF saved.status = "ok"
                     THEN Handled(pushed, "added", 1, <<"Client added">>, saved.content)
                     ELSE Handled(pushed, "panic", 1, <<>>, saved.content) :
                     saved \in {save(pushed, f)} }) :
               pushed \in {push_peer(config,
                                     new_client(client_name, internal_address,
                                                allowed_ips, dns, persistent_keepalive,
                                                public_key, keys[1]))} })

\* mutant: save is called although no client was removed
handle_remove_client_always_saves(config, client_name, f) ==
    The({ The({ IF Len(retained.clients) = Len(config.clients)
                THEN Handled(retained, "notfound",  0,
                             <<"Could not find and remove client \"" \o client_name
                               \o "\"">>,
                             saved.content)
                ELSE IF saved.status = "ok"
                THEN Handled(retained, "removed", 1,
                             <<"Client " \o client_name \o " removed">>, saved.content)
                ELSE Handled(retained, "panic", 1, <<>>, saved.content) :
                saved \in {save(retained, f)} }) :
          retained \in {[config EXCEPT !.clients = retain_not_named(@, client_name)]} })

\* handle_remove_client, and the expect of main on its result
handle_remove_client(config, client_name, f) ==
    The({ IF Len(retained.clients) = Len(config.clients)
          THEN Handled(retained, "notfound",  0,
                       <<"Could not find and remove client \"" \o client_name \o "\"">>,
                       f.content)
          ELSE The({ IF saved.status = "ok"
                     THEN Handled(retained, "removed", 1,
                                  <<"Client " \o client_name \o " removed">>,
                                  saved.content)
                     ELSE Handled(retained, "panic", 1, <<>>, saved.content) :
                     saved \in {save(retained, f)} }) :
          retained \in {[config EXCEPT !.clients = retain_not_named(@, client_name)]} })

\* handle_client_config
handle_client_config(config, client_name, f) ==
    The({ IF IsSome(text)
          THEN Handled(config, "printed", 0, <<text[1]>>, f.content)
          ELSE Handled(config, "noclient", 0,
                       <<"Could not find client " \o client_name>>, f.content) :
          text \in {client_config(config, client_name)} })

\* handle_router_config
handle_router_config(config, f) ==
    Handled(config, "printed", 0,
            <<Router_interface_str(config.router) \o "\n">>
            \o [i \in 1..Len(config.clients) |->
                   Router_peer_str(config.router, config.clients[i]) \o "\n"],
            f.content)

\* handle_list: the rows of the table
handle_list(config, f) ==
    Handled(config, "printed", 0,
            << Join(<<"Name", "Internal Address", "Allowed IPs">>, " | "),
               Join(<<config.router.name, config.router.internal_address, "">>, " | ") >>
            \o [i \in 1..Len(config.clients) |->
                   Join(<<config.clients[i].name, config.clients[i].internal_address,
                          Join(config.clients[i].allowed_ips, ",")>>, " | ")],
            f.content)

(***************************************************************************)
(* Inputs of the model                                                     *)
(***************************************************************************)
Names == {"client-a", "client-b", "client-c"}

\* what gen_keys returns when it succeeds
KeyPairs == {<<"PRIV1", "PUB1">>}

AllNets == <<"0.0.0.0/0", "10.0.1.0/24", "0.0.0.0/0">>

\* the allowed_ips lists given to add-client (the argument is required)
AllowedLists == {SubSeq(AllNets, 1, k) : k \in 1..MaxAllowed}

\* the optional arguments of add-client: a sample of their combinations
AddRequests ==
    { r \in [allowed_ips : AllowedLists, dns : Opt({"10.0.1.1"}),
             persistent_keepalive : Opt({25}), public_key : Opt({"PUBX"})] :
        /\ IsSome(r.dns) <=> Len(r.allowed_ips) = 1
        /\ IsSome(r.persistent_keepalive) <=> IsSome(r.dns)
        /\ IsSome(r.public_key) <=> Len(r.allowed_ips) = MaxAllowed }

\* the router of example_configuration, with keys RPRIV / RPUB
ExampleRouter ==
    Router_new("vpn-router", "10.0.1.1/24", AddrPort_new("vpn.com", 31337),
               <<"RPRIV", "RPUB">>)

\* the clients of example_configuration
ClientA ==
    with_dns(with_keepalive(with_allowed_ips(
        Peer_new("client-a", "10.0.1.2", <<"PRIVA", "PUBA">>), "0.0.0.0/0"),
        Some(25)), Some("10.0.1.1"))

ClientB ==
    with_keepalive(with_allowed_ips(
        Peer_new("client-b", "10.0.1.3", <<"PRIVB", "PUBB">>), "10.0.1.0/24"),
        Some(25))

\* a client known by its public key only
ClientC ==
    set_private_key(
        with_vec_allowed_ips(Peer_new("client-c", "fd00::2", <<"", "PUBC">>),
                             <<"0.0.0.0/0", "10.0.1.0/24">>),
        None)

\* a second entry named client-a, written into the file by hand
ClientA2 == set_private_key([ClientA EXCEPT !.internal_address = "10.0.1.3"], None)

ThePath == Path("/tmp", "wg0", Some("toml"))

Paths == {ThePath, Path("/tmp", "wg0", Some("json")), Path("/tmp", "wg0", None)}

\* the files the commands start from: written by generate-example and by hand
StartRouters == {ExampleRouter, with_table(ExampleRouter, Some(Custom(MaxTable)))}

StartClients ==
    { <<>>, <<ClientA>>, <<ClientA, ClientB>>, <<ClientC, ClientA>>,
      <<ClientA, ClientB, ClientC>>, <<ClientB, ClientA, ClientA2>> }

StartFiles ==
    { [path |-> ThePath, exists |-> TRUE, content |-> Document(r, cl, TRUE)] :
        r \in StartRouters, cl \in StartClients }
    \cup { [path |-> p, exists |-> e,
            content |-> Document(ExampleRouter, <<ClientA>>, TRUE)] :
             p \in Paths, e \in BOOLEAN }

(***************************************************************************)
(* The commands of main: each opens the configuration, runs its handler    *)
(* and exits.  mem is the configuration in memory when the command ends    *)
(* (None when it was not opened); res is what the command did.             *)
(***************************************************************************)
Result(op, arg, outcome, saves, out, opened) ==
    [op |-> op, arg |-> arg, outcome |-> outcome, saves |-> saves, out |-> out,
     status |-> opened.status, err |-> opened.err, deser |-> opened.deser,
     loaded |-> opened.cfg]

NotOpened == OpenResult("none", "", None, FALSE)

\* main: run handler h on the opened configuration, or report the failure
Command(op, arg, opened, h) ==
    IF opened.status = "ok"
    THEN /\ fs' = [fs EXCEPT !.content = h.content]
         /\ mem' = Some(h.cfg)
         /\ res' = Result(op, arg, h.outcome, h.saves, h.out, opened)
    ELSE /\ fs' = fs
         /\ mem' = None
         /\ res' = Result(op, arg,
                          IF opened.status = "panic" THEN "panic" ELSE "open_error", 0,
                          IF opened.status = "panic" THEN <<>>
                          ELSE <<"Could not open configuration file: " \o opened.err>>,
                          opened)

ConfigOpts == [name |-> None, path |-> Some(fs.path)]

\* a placeholder for the handler's argument when the configuration is not open
NoConfig == Configuration_new(ExampleRouter)

CfgOf(opened) == IF opened.status = "ok" THEN opened.cfg[1] ELSE NoConfig

AddClient ==
    \E opened \in {handle_configuration_open(ConfigOpts, fs)} :
    \E client_name \in Names, r \in AddRequests, keys \in Opt(KeyPairs) :
        /\ Len(CfgOf(opened).clients) < MaxPeers
        /\ \E h \in {handle_add_client(CfgOf(opened), client_name, "10.0.1.2",
                                       r.allowed_ips, r.dns, r.persistent_keepalive,
                                       r.public_key, keys, fs)} :
               Command("add-client", client_name, opened, h)

RemoveClient ==
    \E opened \in {handle_configuration_open(ConfigOpts, fs)} :
    \E client_name \in Names :
    \E h \in {handle_remove_client(CfgOf(opened), client_name, fs)} :
        Command("remove-client", client_name, opened, h)

ClientConfig ==
    \E opened \in {handle_configuration_open(ConfigOpts, fs)} :
    \E client_name \in Names :
    \E h \in {handle_client_config(CfgOf(opened), client_name, fs)} :
        Command("client-config", client_name, opened, h)

RouterConfig ==
    \E opened \in {handle_configuration_open(ConfigOpts, fs)} :
    \E h \in {handle_router_config(CfgOf(opened), fs)} :
        Command("router-config", "", opened, h)

List ==
    \E opened \in {handle_configuration_open(ConfigOpts, fs)} :
    \E h \in {handle_list(CfgOf(opened), fs)} :
        Command("list", "", opened, h)

Init ==
    /\ fs \in StartFiles
    /\ mem = None
    /\ res = Result("start", "", "", 0, <<>>, NotOpened)

Next == AddClient \/ RemoveClient \/ ClientConfig \/ RouterConfig \/ List

Spec == Init /\ [][Next]_vars

\* the names of a client list are pairwise distinct
DistinctNames(clients) ==
    \A i, j \in 1..Len(clients) : clients[i].name = clients[j].name => i = j

\* The commands, started on a file whose clients have pairwise distinct names
InitDistinct ==
    /\ Init
    /\ \A c \in {from_str(fs.content)} : IsSome(c) => DistinctNames(c[1].clients)

SpecDistinct == InitDistinct /\ [][Next]_vars

(***************************************************************************)
(* Rendering taken alone: the configuration in memory is drawn from every  *)
(* combination of set and unset optional fields, and each rendering        *)
(* function is applied to it.  The peer rendered is the first client.      *)
(***************************************************************************)
Hooks == [preup : Opt({"echo pre-up"}), postup : Opt({"echo post-up"}),
          predown : Opt({"echo pre-down"}), postdown : Opt({"echo post-down"})]

with_hooks(e, h) ==
    [e EXCEPT !.preup = h.preup, !.postup = h.postup,
              !.predown = h.predown, !.postdown = h.postdown]

RenderRouters ==
    { with_hooks([ExampleRouter EXCEPT !.mtu = mtu, !.table = table], h) :
        mtu \in Opt({1420}), table \in Opt(TableTypes), h \in Hooks }

\* allowed_ips lists, the empty one included
NetLists == {SubSeq(AllNets, 1, k) : k \in 0..MaxAllowed}

\* peers that differ in what their interface section shows
InterfacePeers ==
    { with_hooks([ClientA EXCEPT !.private_key = priv, !.dns = dns, !.mtu = mtu,
                                 !.table = table], h) :
        priv \in Opt({"PRIVA"}), dns \in Opt({"10.0.1.1"}), mtu \in Opt({1420}),
        table \in Opt(TableTypes), h \in Hooks }

\* peers that differ in what their peer section shows
SectionPeers ==
    { [ClientA EXCEPT !.internal_address = addr, !.allowed_ips = nets,
                      !.persistent_keepalive = keepalive, !.private_key = priv] :
        addr \in {"10.0.1.2", "fd00::2"}, nets \in NetLists,
        keepalive \in Opt({25}), priv \in Opt({"PRIVA"}) }

RenderConfigs ==
    { [metadata |-> None, router |-> r, clients |-> <<ClientB>>] : r \in RenderRouters }
    \cup { [metadata |-> None, router |-> ExampleRouter, clients |-> <<p>>] :
             p \in InterfacePeers \cup SectionPeers }
    \cup { [metadata |-> None, router |-> ExampleRouter, clients |-> <<p, q>>] :
             p \in SectionPeers, q \in {ClientA, ClientA2, ClientC} }

Rendered(op, arg, outcome, out) == Result(op, arg, outcome, 0, out, NotOpened)

RenderRouterInterface ==
    /\ res' = Rendered("Router::interface_str", "", "some",
                       <<Router_interface_str(mem[1].router)>>)
    /\ UNCHANGED <<fs, mem>>

RenderRouterPeer ==
    /\ res' = Rendered("Router::peer_str", "", "some",
                       <<Router_peer_str(mem[1].router, mem[1].clients[1])>>)
    /\ UNCHANGED <<fs, mem>>

RenderPeerInterface ==
    /\ \E text \in {Peer_interface_str(mem[1].clients[1])} :
           res' = Rendered("Peer::interface_str", "",
                           IF IsSome(text) THEN "some" ELSE "none", text)
    /\ UNCHANGED <<fs, mem>>

RenderPeerPeer ==
    /\ res' = Rendered("Peer::peer_str", "", "some",
                       <<Peer_peer_str(mem[1].clients[1], mem[1].router)>>)
    /\ UNCHANGED <<fs, mem>>

RenderClientConfig ==
    \E name \in Names :
        /\ \E text \in {client_config(mem[1], name)} :
               res' = Rendered("Configuration::client_config", name,
                               IF IsSome(text) THEN "some" ELSE "none", text)
        /\ UNCHANGED <<fs, mem>>

InitRender ==
    /\ fs = [path |-> ThePath, exists |-> FALSE, content |-> <<>>]
    /\ mem \in {Some(c) : c \in RenderConfigs}
    /\ res = Result("start", "", "", 0, <<>>, NotOpened)

NextRender ==
    \/ RenderRouterInterface
    \/ RenderRouterPeer
    \/ RenderPeerInterface
    \/ RenderPeerPeer
    \/ RenderClientConfig

SpecRender == InitRender /\ [][NextRender]_vars

(***************************************************************************)
(* Load, save, load again: from_path on a written file, save of what was   *)
(* loaded, from_path on the saved file.  res.loaded keeps the first load.  *)
(***************************************************************************)
RoundTripFiles ==
    { [path |-> ThePath, exists |-> TRUE, content |-> Document(c.router, c.clients,
                                                              TRUE)] :
        c \in RenderConfigs }

OpenFirst ==
    /\ res.op = "start"
    /\ \E opened \in {from_path(fs.path, fs)} :
           /\ mem' = opened.cfg
           /\ res' = Result("from_path", "", opened.status, 0, <<>>, opened)
    /\ UNCHANGED fs

SaveLoaded ==
    /\ res.op = "from_path"
    /\ res.status = "ok"
    /\ \E saved \in {save(mem[1], fs)} :
           /\ fs' = [fs EXCEPT !.content = saved.content]
           /\ res' = [res EXCEPT !.op = "save", !.outcome = saved.status, !.saves = 1]
    /\ UNCHANGED mem

OpenAgain ==
    /\ res.op = "save"
    /\ \E opened \in {from_path(fs.path, fs)} :
           /\ mem' = opened.cfg
           /\ res' = [res EXCEPT !.op = "from_path again", !.outcome = opened.status,
                                 !.status = opened.status, !.err = opened.err]
    /\ UNCHANGED fs

InitRoundTrip ==
    /\ fs \in RoundTripFiles
    /\ mem = None
    /\ res = Result("start", "", "", 0, <<>>, NotOpened)

NextRoundTrip == OpenFirst \/ SaveLoaded \/ OpenAgain

SpecRoundTrip == InitRoundTrip /\ [][NextRoundTrip]_vars

(***************************************************************************)
(* Building a configuration in memory and saving it: Configuration::new,   *)
(* then with_name, with_path and push_peer in any order, and save at any   *)
(* point.  res is what the last operation returned.                        *)
(***************************************************************************)
ConfigNames == {"wg0", "wg1"}

Built(op, status, err, written) ==
    [op |-> op, status |-> status, err |-> err, written |-> written]

BuildWithName ==
    /\ \E name \in ConfigNames : mem' = Some(with_name(mem[1], name))
    /\ res' = Built("with_name", "ok", "", FALSE)
    /\ UNCHANGED fs

BuildWithPath ==
    /\ \E path \in Paths : mem' = Some(with_path(mem[1], path))
    /\ res' = Built("with_path", "ok", "", FALSE)
    /\ UNCHANGED fs

BuildPushPeer ==
    /\ Len(mem[1].clients) < MaxPeers
    /\ \E client \in {ClientA, ClientB} : mem' = Some(push_peer(mem[1], client))
    /\ res' = Built("push_peer", "ok", "", FALSE)
    /\ UNCHANGED fs

SaveBuilt ==
    /\ \E saved \in {save(mem[1], fs)} :
           /\ fs' = [fs EXCEPT !.content = saved.content]
           /\ res' = Built("save", saved.status, saved.err, saved.written)
    /\ UNCHANGED mem

InitSave ==
    /\ fs \in StartFiles
    /\ mem = Some(Configuration_new(ExampleRouter))
    /\ res = Built("new", "ok", "", FALSE)

NextSave == BuildWithName \/ BuildWithPath \/ BuildPushPeer \/ SaveBuilt

SpecSave == InitSave /\ [][NextSave]_vars

(***************************************************************************)
(* Opening a configuration by name: the file is one of the files of        *)
(* /etc/wireguard, or is missing.                                          *)
(***************************************************************************)
NameArgs == {<<"wg0">>, <<"wg1">>, <<"wg0", "home">>}

NameFiles ==
    { [path |-> Path(WIREGUARD_CONFIG_PATH, Join(name, "."), Some("toml")),
       exists |-> e, content |-> Document(r, cl, TRUE)] :
        name \in NameArgs, e \in BOOLEAN, r \in StartRouters, cl \in StartClients }

OpenByName ==
    /\ \E name \in NameArgs :
       \E opened \in {from_name(name, fs)} :
           /\ mem' = opened.cfg
           /\ res' = Result("from_name", name, opened.status, 0, <<>>, opened)
    /\ UNCHANGED fs

\* the name given on the command line, with or without a custom path
OpenByOpts ==
    /\ \E name \in NameArgs, path \in Opt({ThePath}) :
       \E opened \in {handle_configuration_open([name |-> Some(name), path |-> path],
                                                fs)} :
           /\ mem' = opened.cfg
           /\ res' = Result("handle_configuration_open", name, opened.status, 0, <<>>,
                            opened)
    /\ UNCHANGED fs

InitName ==
    /\ fs \in NameFiles
    /\ mem = None
    /\ res = Result("start", <<>>, "", 0, <<>>, NotOpened)

NextName == OpenByName \/ OpenByOpts

SpecName == InitName /\ [][NextName]_vars

(***************************************************************************)
(* Key generation.  gen_keys runs wg on the host and may fail; keys is     *)
(* what it returns, None when it fails.  res records the caller-supplied   *)
(* public key, what gen_keys returned and how often it was called.         *)
(***************************************************************************)
\* Router::new and Peer::new each call gen_keys once, whatever their caller
\* does with the keys afterwards
Router_new_gen_keys == 1

Peer_new_gen_keys == 1

\* handle_add_client reaches Peer::new unless the name is already present
handle_add_client_gen_keys(config, client_name) ==
    IF \E i \in 1..Len(config.clients) : config.clients[i].name = client_name
    THEN 0
    ELSE Peer_new_gen_keys

KeyUse(op, arg, public_key, keys, gen_keys, outcome) ==
    [op |-> op, arg |-> arg, public_key |-> public_key, keys |-> keys,
     gen_keys |-> gen_keys, outcome |-> outcome]

AddClientKeys ==
    \E opened \in {handle_configuration_open(ConfigOpts, fs)} :
    \E client_name \in Names, r \in AddRequests, keys \in Opt(KeyPairs) :
        /\ opened.status = "ok"
        /\ Len(opened.cfg[1].clients) < MaxPeers
        /\ \E h \in {handle_add_client(opened.cfg[1], client_name, "10.0.1.2",
                                       r.allowed_ips, r.dns, r.persistent_keepalive,
                                       r.public_key, keys, fs)} :
               /\ fs' = [fs EXCEPT !.content = h.content]
               /\ mem' = Some(h.cfg)
               /\ res' = KeyUse("add-client", client_name, r.public_key, keys,
                                handle_add_client_gen_keys(opened.cfg[1], client_name),
                                h.outcome)

\* Router::new, as example_configuration calls it
NewRouter ==
    /\ \E keys \in Opt(KeyPairs) :
           /\ mem' = IF IsSome(keys)
                     THEN Some(Configuration_new(
                                  Router_new("vpn-router", "10.0.1.1/24",
                                             AddrPort_new("vpn.com", 31337), keys[1])))
                     ELSE None
           /\ res' = KeyUse("Router::new", "vpn-router", None, keys,
                            Router_new_gen_keys,
                            IF IsSome(keys) THEN "ok" ELSE "panic")
    /\ UNCHANGED fs

InitKeys ==
    /\ fs \in StartFiles
    /\ mem = None
    /\ res = KeyUse("start", "", None, None, 0, "")

NextKeys == AddClientKeys \/ NewRouter

SpecKeys == InitKeys /\ [][NextKeys]_vars

(***************************************************************************)
(* The builder functions of Peer, called in any order on a new peer.  mem  *)
(* is the peer so far, res.calls the calls made on it, in call order.      *)
(***************************************************************************)
Call(op, arg) == [op |-> op, arg |-> arg]

\* the peer after one builder call
Apply(p, call) ==
    CASE call.op = "with_dns" -> with_dns(p, call.arg)
      [] call.op = "with_keepalive" -> with_keepalive(p, call.arg)
      [] call.op = "with_vec_allowed_ips" -> with_vec_allowed_ips(p, call.arg)
      [] call.op = "with_allowed_ips" -> with_allowed_ips(p, call.arg)
      [] call.op = "with_mtu" -> with_mtu(p, call.arg)
      [] call.op = "with_table" -> with_table(p, call.arg)

RECURSIVE ApplyAll(_, _)
\* the peer after a chain of builder calls
ApplyAll(p, calls) ==
    IF calls = <<>> THEN p ELSE ApplyAll(Apply(p, Head(calls)), Tail(calls))

NewPeer == Peer_new("client-a", "10.0.1.2", <<"PRIV1", "PUB1">>)

Called(call) ==
    /\ Len(res.calls) < MaxCalls
    /\ mem' = Some(Apply(mem[1], call))
    /\ res' = [op |-> call.op, calls |-> Append(res.calls, call)]
    /\ UNCHANGED fs

CallWithDns == \E dns \in Opt({"10.0.1.1"}) : Called(Call("with_dns", dns))

CallWithKeepalive == Called(Call("with_keepalive", Some(25)))

CallWithVecAllowedIps ==
    \E allowed_ips \in AllowedLists : Called(Call("with_vec_allowed_ips", allowed_ips))

CallWithAllowedIps ==
    \E allowed_ips \in IpNets : Called(Call("with_allowed_ips", allowed_ips))

CallWithMtu == Called(Call("with_mtu", Some(1420)))

CallWithTable == Called(Call("with_table", Some(Auto)))

InitBuilders ==
    /\ fs = [path |-> ThePath, exists |-> FALSE, content |-> <<>>]
    /\ mem = Some(NewPeer)
    /\ res = [op |-> "Peer::new", calls |-> <<>>]

NextBuilders ==
    \/ CallWithDns
    \/ CallWithKeepalive
    \/ CallWithVecAllowedIps
    \/ CallWithAllowedIps
    \/ CallWithMtu
    \/ CallWithTable

SpecBuilders == InitBuilders /\ [][NextBuilders]_vars

(***************************************************************************)
(* Properties                                                              *)
(***************************************************************************)
Mutating == res.op \in {"add-client", "remove-client"}

Succeeded == res.outcome \in {"added", "removed"}

\* C1: after a successful add-client or remove-client the file holds exactly
\* the serialization of the configuration in memory, whatever the length of
\* the content it replaces.
C1_FileIsSerialization ==
    (Mutating /\ Succeeded) => fs.content = to_string(mem[1])

\* C2: a file that from_path accepts, saved and opened again, yields the
\* router and the client list of the first load.
C2_RoundTrip ==
    res.op = "from_path again" =>
        /\ res.status = "ok"
        /\ mem[1].router = res.loaded[1].router
        /\ mem[1].clients = res.loaded[1].clients

\* the address as the network of that one host
HostNet(addr) == addr \o (IF addr \in V6Addrs THEN "/128" ELSE "/32")

KeepaliveLine(p) ==
    IF IsSome(p.persistent_keepalive)
    THEN <<"PersistentKeepalive = " \o ToString(p.persistent_keepalive[1])>>
    ELSE <<>>

\* C3 as stated: Router.render_peer(peer) is the name comment, [Peer], the
\* peer's public key, the keepalive line iff a keepalive is set, and the
\* peer's allowed networks joined by commas.
C3_RouterPeerAsStated ==
    res.op = "Router::peer_str" =>
        res.out = << Join(<< "# " \o mem[1].clients[1].name,
                            "[Peer]",
                            "PublicKey = " \o mem[1].clients[1].public_key >>
                         \o KeepaliveLine(mem[1].clients[1])
                         \o << "AllowedIPs = "
                               \o Join(mem[1].clients[1].allowed_ips, ", ") >>,
                         "\n") >>

\* C3 amended: Router.render_peer(peer) is the name comment, [Peer], the
\* peer's public key and one AllowedIPs line holding the peer's internal
\* address as a host network; no keepalive line, no allowed networks.
C3_RouterPeerSection ==
    res.op = "Router::peer_str" =>
        res.out = << Join(<< "# " \o mem[1].clients[1].name,
                            "[Peer]",
                            "PublicKey = " \o mem[1].clients[1].public_key,
                            "AllowedIPs = "
                                \o HostNet(mem[1].clients[1].internal_address) >>,
                         "\n") >>

C3_Witness ==
    /\ res.op = "Router::peer_str"
    /\ IsSome(mem[1].clients[1].persistent_keepalive)
    /\ Len(mem[1].clients[1].allowed_ips) = MaxAllowed
    /\ mem[1].clients[1].internal_address \in V6Addrs

\* C4: the file is written only by the one save that ends a successful
\* add-client or remove-client: a command that fails, is rejected or only
\* reads leaves the file as it was, and a successful mutating command leaves
\* what one save of its final configuration writes over the old content.
C4_OnlySaveWrites ==
    [][ /\ res'.outcome \notin {"added", "removed"} => fs' = fs
        /\ res'.outcome \in {"added", "removed"} =>
              /\ res'.op \in {"add-client", "remove-client"}
              /\ res'.saves = 1
              /\ fs' = [fs EXCEPT !.content = write_all(fs.content, to_string(mem'[1]))]
      ]_vars

C4_Witness ==
    /\ res.op = "add-client"
    /\ res.outcome = "exists"
    /\ fs.content # to_string(mem[1])

\* C5: from_path on an existing file whose extension is not toml (another
\* extension or none) returns the invalid-extension error as a value, before
\* any deserialization.
C5_InvalidExtensionReturned ==
    (res.op # "start" /\ fs.exists /\ fs.path.ext # Some("toml")) =>
        /\ res.status = "err"
        /\ res.err = "The provided path does not end in .toml"
        /\ ~res.deser

\* the positions of the clients named name
Named(clients, name) == {i \in 1..Len(clients) : clients[i].name = name}

First(S) == CHOOSE i \in S : \A j \in S : i <= j

\* C6: client_config(name) is nothing when no client has the name or when the
\* first client of that name has no private key; otherwise it is that
\* client's interface section, a blank line, and its peer section for the
\* configuration's router.
C6_ClientConfig ==
    res.op = "Configuration::client_config" =>
        IF \/ Named(mem[1].clients, res.arg) = {}
           \/ ~IsSome(mem[1].clients[First(Named(mem[1].clients, res.arg))].private_key)
        THEN res.out = None
        ELSE res.out =
               << Peer_interface_str(
                      mem[1].clients[First(Named(mem[1].clients, res.arg))])[1]
                  \o "\n" \o "\n"
                  \o Peer_peer_str(mem[1].clients[First(Named(mem[1].clients, res.arg))],
                                   mem[1].router) >>

C6_Witness ==
    /\ res.op = "Configuration::client_config"
    /\ res.outcome = "some"
    /\ Cardinality(Named(mem[1].clients, res.arg)) = 2
    /\ ~IsSome(mem[1].clients[2].private_key)

\* the lines of the optional fields that are set, in the order given
OptionalLines(fields) ==
    Flatten([i \in 1..Len(fields) |->
                IF IsSome(fields[i][2])
                THEN <<fields[i][1] \o " = " \o fields[i][2][1]>>
                ELSE <<>>])

NumText(o) == IF IsSome(o) THEN Some(ToString(o[1])) ELSE None

TableText(o) ==
    IF ~IsSome(o) THEN None
    ELSE IF o[1] = Off THEN Some("off")
    ELSE IF o[1] = Auto THEN Some("auto")
    ELSE Some(ToString(o[1].value))

ExtendedFields(e) ==
    << <<"MTU", NumText(e.mtu)>>, <<"Table", TableText(e.table)>>,
       <<"PreUp", e.preup>>, <<"PostUp", e.postup>>,
       <<"PreDown", e.predown>>, <<"PostDown", e.postdown>> >>

\* C7: an interface section is the mandatory lines, then one line for each
\* optional field that is set and none for an unset one, in the order MTU,
\* Table, PreUp, PostUp, PreDown, PostDown for a router and DNS first for a
\* peer; a router's section has no Endpoint line.
C7_InterfaceLines ==
    /\ res.op = "Router::interface_str" =>
          res.out = << Join(<< "# " \o mem[1].router.name,
                              "[Interface]",
                              "Address = " \o mem[1].router.internal_address,
                              "PrivateKey = " \o mem[1].router.private_key,
                              "ListenPort = "
                                  \o ToString(mem[1].router.external_address.port) >>
                           \o OptionalLines(ExtendedFields(mem[1].router)),
                           "\n") >>
    /\ (res.op = "Peer::interface_str" /\ IsSome(mem[1].clients[1].private_key)) =>
          res.out = << Join(<< "# " \o mem[1].clients[1].name,
                              "[Interface]",
                              "PrivateKey = " \o mem[1].clients[1].private_key[1],
                              "Address = " \o HostNet(mem[1].clients[1].internal_address) >>
                           \o OptionalLines(<< <<"DNS", mem[1].clients[1].dns>> >>
                                            \o ExtendedFields(mem[1].clients[1])),
                           "\n") >>

C7_Witness ==
    /\ res.op = "Peer::interface_str"
    /\ IsSome(mem[1].clients[1].private_key)
    /\ IsSome(mem[1].clients[1].dns)
    /\ ~IsSome(mem[1].clients[1].mtu)
    /\ mem[1].clients[1].table = Some(Custom(MaxTable))
    /\ ~IsSome(mem[1].clients[1].preup)
    /\ IsSome(mem[1].clients[1].postdown)

\* C8: Peer.render_peer(router) is the router's name comment, [Peer], the
\* router's public key, the router's external address and port as Endpoint,
\* the keepalive line iff the peer's keepalive is set, and the peer's allowed
\* networks in list order joined by ", ".
C8_PeerSection ==
    res.op = "Peer::peer_str" =>
        res.out = << Join(<< "# " \o mem[1].router.name,
                            "[Peer]",
                            "PublicKey = " \o mem[1].router.public_key,
                            "Endpoint = " \o AddrPort_fmt(mem[1].router.external_address) >>
                         \o KeepaliveLine(mem[1].clients[1])
                         \o << "AllowedIPs = "
                               \o Join(mem[1].clients[1].allowed_ips, ", ") >>,
                         "\n") >>

C8_Witness ==
    /\ res.op = "Peer::peer_str"
    /\ IsSome(mem[1].clients[1].persistent_keepalive)
    /\ Len(mem[1].clients[1].allowed_ips) = MaxAllowed

LastClient == mem[1].clients[Len(mem[1].clients)]

\* C9: a peer's interface section is nothing iff the peer has no private
\* key; a client added with a supplied public key has no private key and
\* neither an interface section nor a client configuration, and a client
\* added with generated keys has both.
C9_InterfaceIffPrivateKey ==
    IsSome(mem) =>
        /\ \A i \in 1..Len(mem[1].clients) :
              (Peer_interface_str(mem[1].clients[i]) = None)
                  <=> (mem[1].clients[i].private_key = None)
        /\ (res.op = "add-client" /\ res.outcome = "added") =>
              IF LastClient.public_key = "PUBX"
              THEN /\ LastClient.private_key = None
                   /\ Peer_interface_str(LastClient) = None
                   /\ client_config(mem[1], LastClient.name) = None
              ELSE /\ LastClient.private_key = Some("PRIV1")
                   /\ IsSome(Peer_interface_str(LastClient))
                   /\ IsSome(client_config(mem[1], LastClient.name))

C9_Witness ==
    /\ res.op = "add-client"
    /\ res.outcome = "added"
    /\ LastClient.public_key = "PUBX"

\* the positions of the clients not named name
Kept(clients, name) == {i \in 1..Len(clients) : clients[i].name # name}

\* the k-th smallest member of S
Nth(S, k) == CHOOSE i \in S : Cardinality({j \in S : j <= i}) = k

\* C10: remove-client removes every client of the given name and no other,
\* keeps the others in their order, and reports a removal iff a client was
\* removed; for a name not present the list is unchanged.
C10_RemoveByName ==
    (res.op = "remove-client" /\ res.status = "ok") =>
        /\ Len(mem[1].clients) = Cardinality(Kept(res.loaded[1].clients, res.arg))
        /\ \A k \in 1..Len(mem[1].clients) :
              mem[1].clients[k]
                  = res.loaded[1].clients[Nth(Kept(res.loaded[1].clients, res.arg), k)]
        /\ (res.outcome = "removed")
              <=> (Named(res.loaded[1].clients, res.arg) # {})
        /\ (res.outcome = "notfound")
              <=> (Named(res.loaded[1].clients, res.arg) = {})
        /\ res.outcome = "notfound" => mem[1].clients = res.loaded[1].clients

C10_Witness ==
    /\ res.op = "remove-client"
    /\ res.outcome = "removed"
    /\ Cardinality(Named(res.loaded[1].clients, res.arg)) = 2
    /\ Len(mem[1].clients) >= 1

NoDestination ==
    {"Configuration metadata not found.", "No path defined for this configuration."}

HasPath(c) == IsSome(c.metadata) /\ IsSome(c.metadata[1].path)

\* C11: save on a configuration with no known path (no metadata, or metadata
\* with a name only) returns the no-destination error as a value and leaves
\* the file as it was.
C11_SaveWithoutPath ==
    [][ (res'.op = "save" /\ ~HasPath(mem[1])) =>
            /\ res'.status = "err"
            /\ res'.err \in NoDestination
            /\ ~res'.written
            /\ fs' = fs
      ]_vars

C11_Witness ==
    /\ res.op = "save"
    /\ res.status = "err"
    /\ IsSome(mem[1].metadata)
    /\ IsSome(mem[1].metadata[1].name)
    /\ ~IsSome(mem[1].metadata[1].path)
    /\ Len(mem[1].clients) > 0
    /\ fs.exists
    /\ fs.content # to_string(mem[1])

\* the path the name stands for: the directory, then the whole name, then
\* the recognized extension
NamedPath(name) == Path(WIREGUARD_CONFIG_PATH, Join(name, "."), Some("toml"))

\* C12: from_name(name) looks at <directory>/<name>.toml with the name kept
\* whole, returns the not-found error when no file is there, and otherwise
\* returns what from_path returns on that path, named after the given name.
C12_FromName ==
    (res.op = "from_name") =>
        IF ~(fs.exists /\ fs.path = NamedPath(res.arg))
        THEN /\ res.status = "err"
             /\ res.err = Path_to_str(NamedPath(res.arg)) \o " is not a file"
             /\ mem = None
        ELSE /\ res.status = from_path(NamedPath(res.arg), fs).status
             /\ res.err = from_path(NamedPath(res.arg), fs).err
             /\ mem = from_path(NamedPath(res.arg), fs).cfg
             /\ IsSome(mem) => mem[1].metadata[1].name = Some(Join(res.arg, "."))

\* C13: when the names of the clients are pairwise distinct in the file at
\* the start, they are pairwise distinct in the configuration of every later
\* command; add-client with a name already present leaves the client list
\* as loaded, and add-client with a new name appends one client at its end.
C13_NamesStayDistinct ==
    IsSome(mem) =>
        /\ DistinctNames(mem[1].clients)
        /\ res.outcome = "exists" => mem[1].clients = res.loaded[1].clients
        /\ res.outcome = "added" =>
              /\ Len(mem[1].clients) = Len(res.loaded[1].clients) + 1
              /\ SubSeq(mem[1].clients, 1, Len(res.loaded[1].clients))
                     = res.loaded[1].clients
              /\ mem[1].clients[Len(mem[1].clients)].name = res.arg

\* C14: gen_keys is called once for each new router or peer that gets no
\* caller-supplied key and is not called for a client added with a supplied
\* public key, so its failure cannot fail such an add-client.
C14_KeyGeneration ==
    /\ res.op = "Router::new" => res.gen_keys = 1
    /\ (res.op = "add-client" /\ res.outcome # "exists") =>
          IF IsSome(res.public_key)
          THEN /\ res.gen_keys = 0
               /\ res.keys = None => res.outcome # "panic"
          ELSE res.gen_keys = 1

\* the orderings of n calls
Orderings(n) == {f \in [1..n -> 1..n] : \A i, j \in 1..n : f[i] = f[j] => i = j}

Reordered(calls, f) == [i \in 1..Len(calls) |-> calls[f[i]]]

\* the field a builder call writes
FieldOf(call) ==
    IF call.op \in {"with_allowed_ips", "with_vec_allowed_ips"} THEN "allowed_ips"
    ELSE call.op

\* the ordering keeps the calls on one field in the order they were made
KeepsFieldOrder(calls, f) ==
    \A i, j \in 1..Len(calls) :
        (i < j /\ FieldOf(calls[f[i]]) = FieldOf(calls[f[j]])) => f[i] < f[j]

\* no two of the calls set the same one of dns, keepalive, mtu and table
OncePerOption(calls) ==
    \A i, j \in 1..Len(calls) :
        (calls[i].op = calls[j].op /\ FieldOf(calls[i]) # "allowed_ips") => i = j

\* C15 as stated: the builder calls made on a peer (each of with_dns,
\* with_keepalive, with_mtu and with_table at most once), made in any other
\* order, yield the same peer, allowed_ips included.
C15_AnyOrder ==
    OncePerOption(res.calls) =>
        \A f \in Orderings(Len(res.calls)) :
            ApplyAll(NewPeer, Reordered(res.calls, f)) = mem[1]

\* C15: the builder calls made on a peer, made in any order that keeps the
\* calls on one field in their order, yield the same peer: calls on different
\* fields commute, the last call on dns, keepalive, mtu or table sets the
\* field, and allowed_ips is the list of the last with_vec_allowed_ips
\* followed by the networks of the later with_allowed_ips, in call order.
C15_OrderAcrossFields ==
    /\ \A f \in Orderings(Len(res.calls)) :
          KeepsFieldOrder(res.calls, f) =>
              ApplyAll(NewPeer, Reordered(res.calls, f)) = mem[1]
    /\ \A k \in 1..Len(res.calls) :
          (\A j \in (k + 1)..Len(res.calls) :
               FieldOf(res.calls[j]) # FieldOf(res.calls[k])) =>
              CASE res.calls[k].op = "with_dns" -> mem[1].dns = res.calls[k].arg
                [] res.calls[k].op = "with_keepalive" ->
                       mem[1].persistent_keepalive = res.calls[k].arg
                [] res.calls[k].op = "with_mtu" -> mem[1].mtu = res.calls[k].arg
                [] res.calls[k].op = "with_table" -> mem[1].table = res.calls[k].arg
                [] res.calls[k].op = "with_vec_allowed_ips" ->
                       mem[1].allowed_ips = res.calls[k].arg
                [] res.calls[k].op = "with_allowed_ips" ->
                       /\ Len(mem[1].allowed_ips) > 0
                       /\ mem[1].allowed_ips[Len(mem[1].allowed_ips)]
                             = res.calls[k].arg

C15_Witness ==
    /\ Len(res.calls) = MaxCalls
    /\ res.calls[1].op = "with_vec_allowed_ips"
    /\ res.calls[MaxCalls - 1].op = "with_mtu"
    /\ res.calls[MaxCalls].op = "with_allowed_ips"
    /\ Len(mem[1].allowed_ips) = Len(res.calls[1].arg) + 1
    /\ mem[1].mtu = Some(1420)

====
